---------------------------- MODULE Spec2Model ----------------------------
(***************************************************************************)
(* A model of the retrieval-augmented nutrition / health-scheme service:   *)
(*   src/api/search.py      semantic_search, parse_health_scheme           *)
(*   src/api/nutrition.py   get_nutrition_recommendation                   *)
(*   src/api/pdf_upload.py  process_pdf                                    *)
(*   src/api/embedding_utils.py  get_embedding_model                       *)
(*                                                                         *)
(* Text is modelled as a sequence of atoms.  An atom is a lexeme that no   *)
(* regular expression of the program splits (a label, a word, a fence, one *)
(* punctuation or whitespace character), written as the TLA+ string of its *)
(* characters; a Python str is the concatenation of its atoms.  The empty  *)
(* str is the empty sequence.                                              *)
(***************************************************************************)
EXTENDS Integers, Sequences, FiniteSets, TLC

VARIABLES
    \* parse_health_scheme (src/api/search.py)
    content,          \* the argument: a result's payload text
    cleaned_data,     \* the mapping returned
    spc,              \* "call" | "done"
    \* region extraction of get_nutrition_recommendation
    query,            \* the request's query
    region,           \* the local variable region
    rpc,              \* "call" | "done"
    \* diet-plan parse of get_nutrition_recommendation
    completion,       \* completion.choices[0].message.content
    diet_plan_text,   \* the local variable diet_plan_text
    dresult,          \* the mapping returned
    dpc,              \* "llm" | "extracted" | "return_stage1" |
                      \* "return_fallback" | "raise"
    \* process_pdf (src/api/pdf_upload.py) and what it acts on
    environ,          \* the names os.getenv gives a non-empty value for
    collections,      \* the vector store's collections
    points,           \* the vector store's points
    temp_files,       \* the temporary files that exist, by request
    embedding_model,  \* the global of embedding_utils.py: NoInstance or the instance
    instances,        \* the number of EmbeddingModel instances constructed
    req               \* the requests: position, operation, arguments, the
                      \* collaborator calls made, the loader's page count,
                      \* the instance get_embedding_model returned, the
                      \* outcome, and the local collection_exists

dietVars == <<completion, diet_plan_text, dresult, dpc>>

parseVars == <<content, cleaned_data, spc, query, region, rpc, dietVars>>

serviceVars == <<environ, collections, points, temp_files, embedding_model,
                 instances, req>>

vars == <<parseVars, serviceVars>>

----------------------------------------------------------------------------
(* Python str helpers over atom sequences *)

Min(S) == CHOOSE x \in S : \A y \in S : x <= y
Max(S) == CHOOSE x \in S : \A y \in S : x >= y

\* str.isspace of a one-character atom; the regex class \s
IsWs(a) == a \in {" ", "\n"}

\* str.lower, atom by atom (atoms without upper-case letters are unchanged)
Lower(a) ==
    CASE a = "State:"    -> "state:"
      [] a = "Benefits:" -> "benefits:"
      [] a = "Contact:"  -> "contact:"
      [] a = "From"      -> "from"
      [] a = "Kerala"    -> "kerala"
      [] a = "Day"       -> "day"
      [] a = "DAY"       -> "day"
      [] a = "Breakfast" -> "breakfast"
      [] a = "Lunch"     -> "lunch"
      [] a = "Poha"      -> "poha"
      [] a = "Dal"       -> "dal"
      [] a = "Idli"      -> "idli"
      [] OTHER           -> a

LowerStr(s) == [i \in 1..Len(s) |-> Lower(s[i])]

\* str.strip(): drop leading and trailing whitespace
Strip(s) ==
    LET keep == {i \in 1..Len(s) : ~IsWs(s[i])}
    IN  IF keep = {} THEN <<>> ELSE SubSeq(s, Min(keep), Max(keep))

\* the start positions of the occurrences of pat in s (pat non-empty)
Occurrences(pat, s) ==
    {i \in 1..(Len(s) - Len(pat) + 1) : SubSeq(s, i, i + Len(pat) - 1) = pat}

\* `pat in s`
Contains(pat, s) == Occurrences(pat, s) # {}

\* the first index >= g of s that holds no whitespace (Len(s)+1 if none):
\* where a greedy \s* started at g stops
RECURSIVE WsRunEnd(_, _)
WsRunEnd(s, g) ==
    IF g > Len(s) \/ ~IsWs(s[g]) THEN g ELSE WsRunEnd(s, g + 1)

\* str.split(): the whitespace-separated words, in order
RECURSIVE SplitWs(_)
SplitWs(s) ==
    LET g == WsRunEnd(s, 1)
    IN  IF g > Len(s) THEN <<>>
        ELSE LET e == Min({i \in g..(Len(s) + 1) : i = Len(s) + 1 \/ IsWs(s[i])})
             IN  <<SubSeq(s, g, e - 1)>> \o SplitWs(SubSeq(s, e, Len(s)))

\* a filter that drops nothing
DropEmpty_KeepAll(f) == f

\* the mapping f without the keys whose value is the empty str
DropEmpty(f) == [k \in {x \in DOMAIN f : f[x] # <<>>} |-> f[k]]

----------------------------------------------------------------------------
(* parse_health_scheme, src/api/search.py:59-98 *)

MaxSchemeLen == 5

SchemeAtoms == {"State:", "benefits:", " ", "\n", "PM", "Kerala"}

LabelledKeys ==
    {"state", "description", "eligibility", "how_to_apply", "benefits",
     "documents_required", "contact_info"}

\* patterns: the literal head of each key's regex, lower-cased
\* (the search is re.IGNORECASE)
LabelOf(key) ==
    CASE key = "state"              -> "state:"
      [] key = "description"        -> "description:"
      [] key = "eligibility"        -> "eligibility:"
      [] key = "how_to_apply"       -> "how to apply:"
      [] key = "benefits"           -> "benefits:"
      [] key = "documents_required" -> "documents required:"
      [] key = "contact_info"       -> "contact:"

\* <Label>:\s*([^\n]+) tried at position p of text: the set of the ends k of
\* the \s* run for which the match succeeds.  \s* is greedy, so the regex
\* engine takes the largest, and gives ground only as far as needed.
LabelMatchStarts(label, text, p) ==
    IF Lower(text[p]) # label THEN {}
    ELSE {g \in (p + 1)..WsRunEnd(text, p + 1) : g <= Len(text) /\ text[g] # "\n"}

\* re.search(pattern, content, re.IGNORECASE): the leftmost position where
\* the pattern matches, and group(1) there; matched is FALSE for None
LabelSearch(label, text) ==
    LET ps == {p \in 1..Len(text) : LabelMatchStarts(label, text, p) # {}}
    IN  IF ps = {} THEN [matched |-> FALSE, group1 |-> <<>>]
        ELSE LET p == Min(ps)
                 g == Max(LabelMatchStarts(label, text, p))
                 e == Min({i \in g..(Len(text) + 1) :
                             i = Len(text) + 1 \/ text[i] = "\n"})
             IN  [matched |-> TRUE, group1 |-> SubSeq(text, g, e - 1)]

\* content.strip().split('\n')[0]
FirstLine(text) ==
    LET s == Strip(text)
        e == Min({i \in 1..(Len(s) + 1) : i = Len(s) + 1 \/ s[i] = "\n"})
    IN  SubSeq(s, 1, e - 1)

\* structured_data after the loop over patterns (lines 63-91)
StructuredData(text) ==
    [k \in LabelledKeys \cup {"scheme_name"} |->
        IF k = "scheme_name" THEN Strip(FirstLine(text))
        ELSE LET m == LabelSearch(LabelOf(k), text)
             IN  IF m.matched THEN Strip(m.group1) ELSE <<>>]

\* the fallback storing the trimmed text
WithRawContent_Trimmed(sd, text) ==
    IF \A k \in LabelledKeys : sd[k] = <<>>
    THEN [k \in DOMAIN sd \cup {"raw_content"} |->
            IF k = "raw_content" THEN Strip(text) ELSE sd[k]]
    ELSE sd

\* the fallback taken whenever some labelled field is empty
WithRawContent_AnyEmpty(sd, text) ==
    IF \E k \in LabelledKeys : sd[k] = <<>>
    THEN [k \in DOMAIN sd \cup {"raw_content"} |->
            IF k = "raw_content" THEN text ELSE sd[k]]
    ELSE sd

\* lines 93-94: the raw_content fallback
WithRawContent(sd, text) ==
    IF \A k \in LabelledKeys : sd[k] = <<>>
    THEN [k \in DOMAIN sd \cup {"raw_content"} |->
            IF k = "raw_content" THEN text ELSE sd[k]]
    ELSE sd

parse_health_scheme(text) ==
    DropEmpty(WithRawContent(StructuredData(text), text))

ParseHealthScheme ==
    /\ spc = "call"
    /\ cleaned_data' = parse_health_scheme(content)
    /\ spc' = "done"
    /\ UNCHANGED <<content, query, region, rpc, dietVars>>
    /\ UNCHANGED serviceVars

----------------------------------------------------------------------------
(* Region extraction, src/api/nutrition.py:50-63 *)

MaxQueryLen == 5

QueryAtoms == {"state", "From", "lives", "in", " ", "Kerala"}

region_keywords ==
    << <<"region">>, <<"state">>, <<"city">>, <<"district">>, <<"area">>,
       <<"from">>, <<"lives", " ", "in">> >>

\* s.split(keyword)[1] when keyword occurs in s: the text between the first
\* occurrence and the next one that does not overlap it
SplitPart1(s, keyword) ==
    LET first == Min(Occurrences(keyword, s))
        from  == first + Len(keyword)
        next  == {i \in Occurrences(keyword, s) : i >= from}
        to    == IF next = {} THEN Len(s) ELSE Min(next) - 1
    IN  SubSeq(s, from, to)

\* the region cut to its first word
RegionOf_FirstWordOnly(region_words) == region_words[1]

\* lines 60-62: the first word, and the second after a space if there is one
RegionOf(region_words) ==
    IF Len(region_words) > 1
    THEN region_words[1] \o <<" ">> \o region_words[2]
    ELSE region_words[1]

\* the loop of lines 53-63 from keyword number i on, region still "unknown"
RECURSIVE RegionLoop(_, _)
RegionLoop(q, i) ==
    IF i > Len(region_keywords) THEN <<"unknown">>
    ELSE LET keyword == region_keywords[i]
             lowered == LowerStr(q)
         IN  IF ~Contains(keyword, lowered) THEN RegionLoop(q, i + 1)
             ELSE LET region_words == SplitWs(Strip(SplitPart1(lowered, keyword)))
                  IN  IF Len(region_words) > 0 THEN RegionOf(region_words)
                      ELSE RegionLoop(q, i + 1)

ExtractRegion(q) == RegionLoop(q, 1)

ExtractRegionStep ==
    /\ rpc = "call"
    /\ region' = ExtractRegion(query)
    /\ rpc' = "done"
    /\ UNCHANGED <<content, cleaned_data, spc, query, dietVars>>
    /\ UNCHANGED serviceVars

----------------------------------------------------------------------------
(* Diet-plan parse, src/api/nutrition.py:107-214 *)

\* the Markdown code fence, three backquotes (a character SANY does not
\* lex inside a string, hence the name)
Fence == "<fence>"

\* JSON values as json.loads builds them, tagged with their Python type:
\* str (v: the atoms), int (v: the digits), None, dict (v: a function from
\* key strs to values), list (v: a sequence of values)
Str(s)  == [t |-> "str",  v |-> s]
Num(ds) == [t |-> "int",  v |-> ds]
Null    == [t |-> "None", v |-> <<>>]
Obj(f)  == [t |-> "dict", v |-> f]
Arr(xs) == [t |-> "list", v |-> xs]

NotSpecified == Str(<<"Not specified">>)

NoteText ==
    <<"The diet plan could not be parsed as JSON and was manually structured.">>

DayNums == 1..7

Digit(n) ==
    CASE n = 0 -> "0" [] n = 1 -> "1" [] n = 2 -> "2" [] n = 3 -> "3"
      [] n = 4 -> "4" [] n = 5 -> "5" [] n = 6 -> "6" [] n = 7 -> "7"
      [] n = 8 -> "8" [] n = 9 -> "9"

IsDigit(a) == a \in {"0", "1", "2", "3", "4", "5", "6", "7", "8", "9"}

\* f"day{day_num}" for day_num in range(1, 8)
DayKey(n) == <<"day", Digit(n)>>

\* the five meal keys, in the order of the dict literals
MealKeys ==
    << <<"breakfast">>, <<"morning", "_", "snack">>, <<"lunch">>,
       <<"evening", "_", "snack">>, <<"dinner">> >>

MealKeySet == {MealKeys[i] : i \in 1..Len(MealKeys)}

\* a day with every meal "Not specified" (lines 139-145, 177-183, 202-208)
AllNotSpecified == [k \in MealKeySet |-> NotSpecified]

(* Stage 0, lines 109-127 *)

\* <fence>json\s*(.*?)\s*<fence> and <fence>\s*(.*?)\s*<fence> from the end g0 of their
\* opening: the first \s* is greedy, the group lazy; the match needs a
\* closing fence, and the group ends where whitespace up to the first
\* closing fence begins
FencedGroup(t, g0) ==
    LET g  == WsRunEnd(t, g0)
        fs == {f \in g..Len(t) : t[f] = Fence}
    IN  IF fs = {} THEN [matched |-> FALSE, group |-> <<>>]
        ELSE LET f == Min(fs)
                 e == Min({x \in g..f : \A k \in x..(f - 1) : IsWs(t[k])})
             IN  [matched |-> TRUE, group |-> SubSeq(t, g, e - 1)]

\* json_pattern with a lazy brace group, \{.*?\}
JsonPatternAt_LazyBraces(t, p) ==
    LET alt1 == IF t[p] = Fence /\ p + 1 <= Len(t) /\ t[p + 1] = "json"
                THEN FencedGroup(t, p + 2)
                ELSE [matched |-> FALSE, group |-> <<>>]
        alt2 == IF t[p] = Fence THEN FencedGroup(t, p + 1)
                ELSE [matched |-> FALSE, group |-> <<>>]
        closes == {c \in (p + 1)..Len(t) : t[c] = "}"}
        alt3 == IF t[p] = "{" /\ closes # {}
                THEN [matched |-> TRUE, group |-> SubSeq(t, p, Min(closes))]
                ELSE [matched |-> FALSE, group |-> <<>>]
    IN  IF alt1.matched THEN alt1 ELSE IF alt2.matched THEN alt2 ELSE alt3

\* the three alternatives of json_pattern tried in order at position p
JsonPatternAt(t, p) ==
    LET alt1 == IF t[p] = Fence /\ p + 1 <= Len(t) /\ t[p + 1] = "json"
                THEN FencedGroup(t, p + 2)
                ELSE [matched |-> FALSE, group |-> <<>>]
        alt2 == IF t[p] = Fence THEN FencedGroup(t, p + 1)
                ELSE [matched |-> FALSE, group |-> <<>>]
        closes == {c \in (p + 1)..Len(t) : t[c] = "}"}
        alt3 == IF t[p] = "{" /\ closes # {}
                THEN [matched |-> TRUE, group |-> SubSeq(t, p, Max(closes))]
                ELSE [matched |-> FALSE, group |-> <<>>]
    IN  IF alt1.matched THEN alt1 ELSE IF alt2.matched THEN alt2 ELSE alt3

\* lines 110-116: re.search(json_pattern, text, re.DOTALL), then the first
\* group that is neither None nor '' replaces the text
JsonCandidate(t) ==
    LET ps == {p \in 1..Len(t) : JsonPatternAt(t, p).matched}
    IN  IF ps = {} THEN t
        ELSE LET group == JsonPatternAt(t, Min(ps)).group
             IN  IF group # <<>> THEN group ELSE t

\* lines 118-122: strip, then cut to the first '{' unless the text starts
\* with one
CutToFirstBrace(t) ==
    LET s == Strip(t)
        opens == {i \in 1..Len(s) : s[i] = "{"}
    IN  IF s # <<>> /\ s[1] = "{" THEN s
        ELSE IF opens # {} THEN SubSeq(s, Min(opens), Len(s))
        ELSE s

\* lines 124-127: cut after the last '}' unless the text ends with one
CutToLastBrace(s) ==
    LET closes == {i \in 1..Len(s) : s[i] = "}"}
    IN  IF s # <<>> /\ s[Len(s)] = "}" THEN s
        ELSE IF closes # {} THEN SubSeq(s, 1, Max(closes))
        ELSE s

ExtractJsonText(t) == CutToLastBrace(CutToFirstBrace(JsonCandidate(t)))

(* json.loads, line 131 *)

JsonError == [ok |-> FALSE, val |-> Null, pos |-> 0]

\* the body of a string literal from position i on, acc decoded so far: ends
\* at the closing quote; a raw newline (a control character) and an unknown
\* escape are errors
RECURSIVE ScanString(_, _, _)
ScanString(t, i, acc) ==
    IF i > Len(t) THEN JsonError
    ELSE IF t[i] = "\"" THEN [ok |-> TRUE, val |-> Str(acc), pos |-> i + 1]
    ELSE IF t[i] = "\n" THEN JsonError
    ELSE IF t[i] = "\\"
         THEN IF i + 1 > Len(t) THEN JsonError
              ELSE IF t[i + 1] \in {"\"", "\\"}
                   THEN ScanString(t, i + 2, Append(acc, t[i + 1]))
              ELSE IF t[i + 1] = "n"
                   THEN ScanString(t, i + 2, Append(acc, "\n"))
              ELSE JsonError
    ELSE ScanString(t, i + 1, Append(acc, t[i]))

\* the first index >= g that holds no digit
RECURSIVE DigitRunEnd(_, _)
DigitRunEnd(t, g) ==
    IF g > Len(t) \/ ~IsDigit(t[g]) THEN g ELSE DigitRunEnd(t, g + 1)

RECURSIVE ScanValue(_, _), ScanMembers(_, _, _), ScanElements(_, _, _)

\* scan_once at position i: a string, an object, an array, null or an
\* integer (0, or digits without a leading 0)
ScanValue(t, i) ==
    IF i > Len(t) THEN JsonError
    ELSE IF t[i] = "\"" THEN ScanString(t, i + 1, <<>>)
    ELSE IF t[i] = "{"
         THEN LET j == WsRunEnd(t, i + 1)
              IN  IF j <= Len(t) /\ t[j] = "}"
                  THEN [ok |-> TRUE, val |-> Obj(<<>>), pos |-> j + 1]
                  ELSE ScanMembers(t, j, <<>>)
    ELSE IF t[i] = "["
         THEN LET j == WsRunEnd(t, i + 1)
              IN  IF j <= Len(t) /\ t[j] = "]"
                  THEN [ok |-> TRUE, val |-> Arr(<<>>), pos |-> j + 1]
                  ELSE ScanElements(t, j, <<>>)
    ELSE IF t[i] = "null" THEN [ok |-> TRUE, val |-> Null, pos |-> i + 1]
    ELSE IF t[i] = "0" THEN [ok |-> TRUE, val |-> Num(<<"0">>), pos |-> i + 1]
    ELSE IF IsDigit(t[i])
         THEN LET e == DigitRunEnd(t, i)
              IN  [ok |-> TRUE, val |-> Num(SubSeq(t, i, e - 1)), pos |-> e]
    ELSE JsonError

\* the members of an object from the key at position i on, f built so far
\* (a repeated key keeps its last value)
ScanMembers(t, i, f) ==
    IF i > Len(t) \/ t[i] # "\"" THEN JsonError
    ELSE LET key == ScanString(t, i + 1, <<>>)
         IN  IF ~key.ok THEN JsonError
             ELSE LET c == WsRunEnd(t, key.pos)
                  IN  IF c > Len(t) \/ t[c] # ":" THEN JsonError
                      ELSE LET val == ScanValue(t, WsRunEnd(t, c + 1))
                           IN  IF ~val.ok THEN JsonError
                               ELSE LET g == (key.val.v :> val.val) @@ f
                                        n == WsRunEnd(t, val.pos)
                                    IN  IF n > Len(t) THEN JsonError
                                        ELSE IF t[n] = "}"
                                             THEN [ok |-> TRUE, val |-> Obj(g), pos |-> n + 1]
                                        ELSE IF t[n] = ","
                                             THEN ScanMembers(t, WsRunEnd(t, n + 1), g)
                                        ELSE JsonError

\* the elements of an array from the value at position i on
ScanElements(t, i, xs) ==
    LET val == ScanValue(t, i)
    IN  IF ~val.ok THEN JsonError
        ELSE LET n == WsRunEnd(t, val.pos)
             IN  IF n > Len(t) THEN JsonError
                 ELSE IF t[n] = "]"
                      THEN [ok |-> TRUE, val |-> Arr(Append(xs, val.val)), pos |-> n + 1]
                 ELSE IF t[n] = ","
                      THEN ScanElements(t, WsRunEnd(t, n + 1), Append(xs, val.val))
                 ELSE JsonError

\* json.loads(text): one value between optional whitespace and nothing
\* after it; ok is FALSE for json.JSONDecodeError
JsonLoads(t) ==
    LET r == ScanValue(t, WsRunEnd(t, 1))
    IN  IF r.ok /\ WsRunEnd(t, r.pos) = Len(t) + 1 THEN r ELSE JsonError

(* Stage 1, lines 133-159 *)

\* lines 147-154: day_data.get(meal, "Not specified") for the five meals;
\* .get exists on a dict only (AttributeError otherwise)
DayData(day_data) ==
    [raised |-> day_data.t # "dict",
     data   |-> IF day_data.t # "dict" THEN AllNotSpecified
                ELSE [k \in MealKeySet |->
                        IF k \in DOMAIN day_data.v THEN day_data.v[k]
                        ELSE NotSpecified]]

\* `day_key in diet_plan_json`: a key of a dict, an element of a list, a
\* substring of a str; TypeError for an int and for None
DayKeyIn(j, day_key) ==
    CASE j.t = "dict" -> [raised |-> FALSE, found |-> day_key \in DOMAIN j.v]
      [] j.t = "list" ->
            [raised |-> FALSE,
             found  |-> \E i \in 1..Len(j.v) :
                            j.v[i].t = "str" /\ j.v[i].v = day_key]
      [] j.t = "str"  -> [raised |-> FALSE, found |-> Contains(day_key, j.v)]
      [] OTHER        -> [raised |-> TRUE, found |-> FALSE]

\* one turn of the loop of lines 135-154
StrictDay(j, day_key) ==
    LET in == DayKeyIn(j, day_key)
    IN  IF in.raised THEN [raised |-> TRUE, data |-> AllNotSpecified]
        ELSE IF ~in.found THEN [raised |-> FALSE, data |-> AllNotSpecified]
        \* diet_plan_json[day_key]: a str and a list take integer indices
        ELSE IF j.t # "dict" THEN [raised |-> TRUE, data |-> AllNotSpecified]
        ELSE DayData(j.v[day_key])

\* the loop of lines 133-154 on the decoded value j: raised if a turn
\* raises TypeError or AttributeError, else structured_response
StrictParse(j) ==
    [raised |-> \E n \in DayNums : StrictDay(j, DayKey(n)).raised,
     plan   |-> [k \in {DayKey(n) : n \in DayNums} |-> StrictDay(j, k).data]]

(* Stage 2 and 3, lines 164-208 *)

\* $ without re.MULTILINE: the end of the text, or before a newline that
\* ends it
AtEnd(t, e) == e = Len(t) + 1 \/ (e = Len(t) /\ t[e] = "\n")

\* the first index >= g that holds neither ':' nor whitespace: where a
\* greedy [:\s]* started at g stops
RECURSIVE ColonWsRunEnd(_, _)
ColonWsRunEnd(t, g) ==
    IF g > Len(t) \/ ~(t[g] = ":" \/ IsWs(t[g])) THEN g
    ELSE ColonWsRunEnd(t, g + 1)

\* the day marker of pattern k of day_patterns at position p, matched
\* with re.IGNORECASE: 'Day \d' for k = 1 and k = 3, 'day\d' for k = 2; the
\* position of its first digit, 0 if the marker is not there
DayMarkerDigits(k, t, p) ==
    IF p > Len(t) \/ Lower(t[p]) # "day" THEN 0
    ELSE IF k = 2
         THEN IF p + 1 <= Len(t) /\ IsDigit(t[p + 1]) THEN p + 1 ELSE 0
         ELSE IF p + 2 <= Len(t) /\ t[p + 1] = " " /\ IsDigit(t[p + 2])
              THEN p + 2 ELSE 0

\* re.findall(pattern k, text) from position from on: the (day_num,
\* day_content) pairs, in order; a match runs to the next marker of the
\* same pattern or to $
RECURSIVE DayMatches(_, _, _)
DayMatches(k, t, from) ==
    LET ps == {p \in from..Len(t) : DayMarkerDigits(k, t, p) # 0}
    IN  IF ps = {} THEN <<>>
        ELSE LET ds == DayMarkerDigits(k, t, Min(ps))
                 de == DigitRunEnd(t, ds)
                 g  == ColonWsRunEnd(t, de)
                 e  == Min({x \in g..(Len(t) + 1) :
                              DayMarkerDigits(k, t, x) # 0 \/ AtEnd(t, x)})
             IN  << [day_num |-> SubSeq(t, ds, de - 1),
                     day_content |-> SubSeq(t, g, e - 1)] >>
                 \o DayMatches(k, t, e)

\* meal_patterns: the literal head of each meal's regex and the labels of
\* its lookahead
MealHead(meal_key) ==
    CASE meal_key = <<"breakfast">>               -> <<"breakfast">>
      [] meal_key = <<"morning", "_", "snack">>   -> <<"morning", " ", "snack">>
      [] meal_key = <<"lunch">>                   -> <<"lunch">>
      [] meal_key = <<"evening", "_", "snack">>   -> <<"evening", " ", "snack">>
      [] meal_key = <<"dinner">>                  -> <<"dinner">>

MealStops(meal_key) ==
    CASE meal_key = <<"breakfast">>               -> {"lunch", "dinner", "snack"}
      [] meal_key = <<"morning", "_", "snack">>   -> {"lunch", "dinner", "breakfast", "evening"}
      [] meal_key = <<"lunch">>                   -> {"breakfast", "dinner", "snack"}
      [] meal_key = <<"evening", "_", "snack">>   -> {"breakfast", "lunch", "dinner", "morning"}
      [] meal_key = <<"dinner">>                  -> {"breakfast", "lunch", "snack"}

\* a meal kept as matched, whitespace around it included
MealValue_Unstripped(meal_key, day_content) ==
    LET occ == Occurrences(MealHead(meal_key), LowerStr(day_content))
    IN  IF occ = {} THEN NotSpecified
        ELSE LET g == ColonWsRunEnd(day_content, Min(occ) + Len(MealHead(meal_key)))
                 e == Min({x \in g..(Len(day_content) + 1) :
                              \/ AtEnd(day_content, x)
                              \/ Lower(day_content[x]) \in MealStops(meal_key)})
             IN  Str(SubSeq(day_content, g, e - 1))

\* lines 193-196: re.search(meal_pattern, day_content) and
\* group(1).strip(), "Not specified" without a match
MealValue(meal_key, day_content) ==
    LET occ == Occurrences(MealHead(meal_key), LowerStr(day_content))
    IN  IF occ = {} THEN NotSpecified
        ELSE LET g == ColonWsRunEnd(day_content, Min(occ) + Len(MealHead(meal_key)))
                 e == Min({x \in g..(Len(day_content) + 1) :
                              \/ AtEnd(day_content, x)
                              \/ Lower(day_content[x]) \in MealStops(meal_key)})
             IN  Str(Strip(SubSeq(day_content, g, e - 1)))

\* lines 175-198 for the matches from number i on: each match sets its
\* day's entry, a later match of the same day replacing an earlier one
RECURSIVE StoreDays(_, _, _)
StoreDays(structured_response, day_matches, i) ==
    IF i > Len(day_matches) THEN structured_response
    ELSE LET day_key  == <<"day">> \o day_matches[i].day_num
             day_data == [k \in MealKeySet |-> MealValue(k, day_matches[i].day_content)]
         IN  StoreDays((day_key :> day_data) @@ structured_response, day_matches, i + 1)

\* the loop of lines 172-198 over day_patterns from pattern k on (no
\* pattern ends the loop)
RECURSIVE FallbackDays(_, _, _)
FallbackDays(structured_response, t, k) ==
    IF k > 3 THEN structured_response
    ELSE FallbackDays(StoreDays(structured_response, DayMatches(k, t, 1), 1), t, k + 1)

\* lines 164-208: structured_response of the fallback; all seven days
\* "Not specified" when no pattern matched (Stage 3)
FallbackParse(t) ==
    LET structured_response == FallbackDays(<<>>, t, 1)
    IN  IF DOMAIN structured_response = {}
        THEN [k \in {DayKey(n) : n \in DayNums} |-> AllNotSpecified]
        ELSE structured_response

\* the fallback's result without the note
FallbackResult_NoNote(t, r) ==
    [diet_plan |-> FallbackParse(t), region |-> r]

\* lines 156-159
StrictResult(plan, r) == [diet_plan |-> plan, region |-> r]

\* lines 210-214
FallbackResult(t, r) ==
    [diet_plan |-> FallbackParse(t), region |-> r, note |-> NoteText]

(* the steps of the parse *)

\* lines 107-127
ExtractJson ==
    /\ dpc = "llm"
    /\ diet_plan_text' = ExtractJsonText(completion)
    /\ dpc' = "extracted"
    /\ UNCHANGED <<content, cleaned_data, spc, query, region, rpc,
                   completion, dresult>>
    /\ UNCHANGED serviceVars

\* lines 130-159: json.loads succeeds and the loop completes
StrictParseReturn ==
    /\ dpc = "extracted"
    /\ LET diet_plan_json == JsonLoads(diet_plan_text)
       IN  /\ diet_plan_json.ok
           /\ LET strict == StrictParse(diet_plan_json.val)
              IN  /\ ~strict.raised
                  /\ dresult' = StrictResult(strict.plan, region)
    /\ dpc' = "return_stage1"
    /\ UNCHANGED <<content, cleaned_data, spc, query, region, rpc,
                   completion, diet_plan_text>>
    /\ UNCHANGED serviceVars

\* lines 130-154, 216-222: json.loads succeeds and the loop raises
\* TypeError or AttributeError, which is logged and raised again
StrictParseRaise ==
    /\ dpc = "extracted"
    /\ LET diet_plan_json == JsonLoads(diet_plan_text)
       IN  /\ diet_plan_json.ok
           /\ StrictParse(diet_plan_json.val).raised
    /\ dpc' = "raise"
    /\ UNCHANGED <<content, cleaned_data, spc, query, region, rpc,
                   completion, diet_plan_text, dresult>>
    /\ UNCHANGED serviceVars

\* lines 161-214: json.JSONDecodeError
FallbackReturn ==
    /\ dpc = "extracted"
    /\ ~JsonLoads(diet_plan_text).ok
    /\ dresult' = FallbackResult(diet_plan_text, region)
    /\ dpc' = "return_fallback"
    /\ UNCHANGED <<content, cleaned_data, spc, query, region, rpc,
                   completion, diet_plan_text>>
    /\ UNCHANGED serviceVars

----------------------------------------------------------------------------
(* Bounded input texts *)

RECURSIVE StringsUpTo(_, _)
StringsUpTo(atoms, n) ==
    IF n = 0 THEN {<<>>}
    ELSE LET shorter == StringsUpTo(atoms, n - 1)
         IN  shorter \cup {Append(s, a) : s \in shorter, a \in atoms}

----------------------------------------------------------------------------
(* Specifications *)

(* The completions the diet-plan parse is checked on.  They are built    *)
(* from atoms such that the regular expressions and json.loads see the    *)
(* atoms' boundaries: a backslash stands only where json.dumps writes one *)
(* (before a quote, a backslash or the n of a newline), and no '.'        *)
(* follows a digit inside JSON text (ScanValue reads integers only).      *)

MaxDietLen == 4

MaxBlocks == 2

GenericAtoms == {Fence, "json", "{", "}", " ", "day", "1", "\""}

\* json.dumps of a str: quoted, with quote, backslash and newline escaped
RECURSIVE EscapeStr(_)
EscapeStr(s) ==
    IF s = <<>> THEN <<>>
    ELSE LET a == Head(s)
             e == IF a = "\"" THEN <<"\\", "\"">>
                  ELSE IF a = "\\" THEN <<"\\", "\\">>
                  ELSE IF a = "\n" THEN <<"\\", "n">>
                  ELSE <<a>>
         IN  e \o EscapeStr(Tail(s))

DumpsStr(s) == <<"\"">> \o EscapeStr(s) \o <<"\"">>

\* json.dumps(value) with its default separators ', ' and ': '; the keys
\* of a dict are written in some order
RECURSIVE JsonDumps(_), DumpsMembers(_, _), DumpsElements(_, _)
JsonDumps(j) ==
    CASE j.t = "str"  -> DumpsStr(j.v)
      [] j.t = "int"  -> j.v
      [] j.t = "None" -> <<"null">>
      [] j.t = "list" -> <<"[">> \o DumpsElements(j.v, 1) \o <<"]">>
      [] j.t = "dict" -> <<"{">> \o DumpsMembers(j.v, DOMAIN j.v) \o <<"}">>

DumpsElements(xs, i) ==
    IF i > Len(xs) THEN <<>>
    ELSE JsonDumps(xs[i])
         \o (IF i < Len(xs) THEN <<",", " ">> ELSE <<>>)
         \o DumpsElements(xs, i + 1)

DumpsMembers(f, keys) ==
    IF keys = {} THEN <<>>
    ELSE LET k == CHOOSE x \in keys : TRUE
         IN  DumpsStr(k) \o <<":", " ">> \o JsonDumps(f[k])
             \o (IF keys # {k} THEN <<",", " ">> ELSE <<>>)
             \o DumpsMembers(f, keys \ {k})

\* what a day key may hold in the JSON completions
DayValues ==
    << Obj(<<>>),
       Obj(<<"breakfast">> :> Str(<<"Idli">>)),
       Obj((<<"breakfast">> :> Str(<<"Idli">>)) @@ (<<"lunch">> :> Num(<<"1">>))
           @@ (<<"dinner">> :> Null)),
       Str(<<"Idli">>),
       Null >>

\* a dict with day1 and day7 absent (0) or holding DayValues[i]
DayDict(i1, i7) ==
    Obj((IF i1 = 0 THEN <<>> ELSE DayKey(1) :> DayValues[i1])
        @@ (IF i7 = 0 THEN <<>> ELSE DayKey(7) :> DayValues[i7]))

\* decoded values that are no dict
NonDicts ==
    << Num(<<"5">>), Null, Str(<<"Idli">>), Str(DayKey(1)), Arr(<<>>),
       Arr(<<Str(DayKey(1))>>) >>

JsonTexts ==
    {JsonDumps(DayDict(i1, i7)) : i1 \in 0..Len(DayValues), i7 \in 0..Len(DayValues)}
    \cup {JsonDumps(NonDicts[i]) : i \in 1..Len(NonDicts)}

\* a JSON text bare, in a fence tagged json, in a bare fence, inside
\* prose, in a fence tagged json after an empty object, and cut short (the
\* completion is limited to max_tokens)
Wrapped(t) ==
    { t,
      <<Fence, "json", "\n">> \o t \o <<"\n", Fence>>,
      <<Fence, "\n">> \o t \o <<"\n", Fence>>,
      <<"Idli", " ">> \o t \o <<" ", "Idli">>,
      <<"{", "}", "\n", Fence, "json", "\n">> \o t \o <<"\n", Fence>>,
      SubSeq(t, 1, Len(t) - 1) }

JsonCompletions == UNION {Wrapped(t) : t \in JsonTexts}

\* schema-valid diet plans: every meal is the str other, but for one slot
\* of day1 or day7 that is the str one
MealStrings ==
    { <<"Idli">>, <<>>, <<"\"">>, <<"\\">>, <<"{", Fence, "json">>,
      <<"}", "\n", "Dal">>, <<"Not specified">> }

PlanOf(d, meal, one, other) ==
    [k \in {DayKey(n) : n \in DayNums} |->
        [mk \in MealKeySet |->
            IF k = DayKey(d) /\ mk = meal THEN Str(one) ELSE Str(other)]]

SchemaValidPlans ==
    {PlanOf(d, meal, one, other) :
        d \in {1, 7}, meal \in MealKeySet, one \in MealStrings, other \in MealStrings}

\* json.dumps(plan)
PlanText(plan) == JsonDumps(Obj([k \in DOMAIN plan |-> Obj(plan[k])]))

\* each plan with its text
PlanPairs == {[plan |-> plan, text |-> PlanText(plan)] : plan \in SchemaValidPlans}

PlanCompletions == {pair.text : pair \in PlanPairs}

\* prose: day blocks, one per line, after an optional opening word
C4Sentence ==
    <<"Day", " ", "1", ":", " ", "Breakfast", ":", " ", "Poha", ".", " ",
      "Lunch", ":", " ", "Dal", " ", "rice", ".">>

DayBlocks ==
    { C4Sentence,
      <<"Day", " ", "1", ":", " ", "morning", " ", "snack", ":", " ", "Idli",
        " ", "dinner", ":", " ", "Poha">>,
      <<"Day", " ", "9", ":">>,
      <<"day", "2", ":", " ", "Lunch", " ", "Idli", " ", "evening", " ",
        "snack", " ", "Poha">>,
      <<"day", "2">>,
      <<"DAY", " ", "1", "2", "\n", "Breakfast", ":", "\n", "Idli">> }

RECURSIVE BlockTexts(_)
BlockTexts(n) ==
    IF n = 0 THEN {<<>>}
    ELSE LET shorter == BlockTexts(n - 1)
         IN  shorter \cup {IF s = <<>> THEN b ELSE s \o <<"\n">> \o b :
                              s \in shorter, b \in DayBlocks}

ProseCompletions ==
    {pre \o t : pre \in {<<>>, <<"Idli", " ">>}, t \in BlockTexts(MaxBlocks)}

Completions ==
    StringsUpTo(GenericAtoms, MaxDietLen) \cup JsonCompletions
    \cup PlanCompletions \cup ProseCompletions

----------------------------------------------------------------------------
(* The three operations of the service on the vector store, the embedding *)
(* singleton and the temporary files:                                     *)
(*   process_pdf, src/api/pdf_upload.py:15-144                            *)
(*   semantic_search, src/api/search.py:9-57                              *)
(*   get_nutrition_recommendation, src/api/nutrition.py:12-222            *)
(* The requests run on one event loop, so an operation runs without       *)
(* suspension from one await to the next.  semantic_search and            *)
(* get_nutrition_recommendation hold no await and take one step;          *)
(* process_pdf suspends at "await file.read()" (line 58) and takes two.   *)
(* An embedding is identified with the text it encodes; the uuid4 of a    *)
(* point is the pair of the request and the chunk's index.                *)

MaxRequests == 2
MaxPages == 1
MaxChunksPerPage == 1

Requests == 1..MaxRequests

Filenames == {"a.pdf"}

\* the text of every chunk of an upload
TextOf(filename) == <<"PM", "\n", "State:", " ", "Kerala">>

\* nutrition.py:10
COLLECTION_NAME == "nutrition_data"

CollectionNames == {"health_schemes", COLLECTION_NAME}

\* pdf_upload.py:23-26, search.py:16-19, nutrition.py:20-21
QdrantEnv == {"QDRANT_URL", "QDRANT_API_KEY"}

\* nutrition.py:22-23
LlmEnv == {"LLAMA_API_KEY", "E2E_NETWORKS_URL"}

\* pdf_upload.py:48
VectorSize == 384

\* VectorParams(size=384, distance=Distance.COSINE), pdf_upload.py:46-49
NewCollection(collection_name) ==
    [name |-> collection_name, size |-> VectorSize, distance |-> "Cosine"]

\* embedding_model = None, embedding_utils.py:88; the instances are
\* numbered from 1 in the order of their construction
NoInstance == 0

NoResult == [status |-> "none"]

Raised(error) == [status |-> "raise", error |-> error]

Returned(value) == [status |-> "return", value |-> value]

\* a request before its operation is called
IdleRequest ==
    [pc |-> "idle", kind |-> "none", filename |-> "", collection_name |-> "",
     query |-> <<>>, calls |-> <<>>, pages |-> -1, model |-> NoInstance,
     result |-> NoResult, collection_exists |-> FALSE]

\* an EmbeddingModel is constructed on every call
GetEmbeddingModel_AlwaysConstructs(model, count, loaded) ==
    IF loaded
    THEN [raised |-> FALSE, model |-> count + 1, constructed |-> 1,
          calls |-> <<"EmbeddingModel">>]
    ELSE [raised |-> TRUE, model |-> model, constructed |-> 0,
          calls |-> <<"EmbeddingModel">>]

\* get_embedding_model, embedding_utils.py:90-102, with the global at model
\* and count instances constructed so far; loaded tells whether
\* EmbeddingModel() succeeds
GetEmbeddingModel(model, count, loaded) ==
    IF model = NoInstance
    THEN IF loaded
         THEN [raised |-> FALSE, model |-> count + 1, constructed |-> 1,
               calls |-> <<"EmbeddingModel">>]
         ELSE [raised |-> TRUE, model |-> NoInstance, constructed |-> 0,
               calls |-> <<"EmbeddingModel">>]
    ELSE [raised |-> FALSE, model |-> model, constructed |-> 0, calls |-> <<>>]

\* the check of the environment values an operation requires:
\* "and" in the place of "or"
EnvMissing_AllAbsent(required) == required \cap environ = {}

\* "if not qdrant_url or not qdrant_api_key ...": pdf_upload.py:26,
\* search.py:19, nutrition.py:25
EnvMissing(required) == ~(required \subseteq environ)

\* the existence check left out
CollectionExists_Unchecked(collection_name) == TRUE

\* any(collection.name == collection_name for collection in collections)
CollectionExists(collection_name) ==
    \E collection \in collections : collection.name = collection_name

\* pdf_upload.py:82-91: the chunks of pages p..pages, each page splitting
\* into per_page chunks
RECURSIVE ChunkList(_, _, _, _)
ChunkList(filename, pages, per_page, p) ==
    IF p > pages THEN <<>>
    ELSE [i \in 1..per_page |->
             [text |-> TextOf(filename), source |-> filename,
              page |-> p, chunk |-> i]]
         \o ChunkList(filename, pages, per_page, p + 1)

\* pdf_upload.py:107-119
PointsOf(r, chunks) ==
    {[id |-> <<r, i>>, payload |-> chunks[i]] : i \in 1..Len(chunks)}

\* pdf_upload.py:71, 95, 126-130
NoContent(filename) ==
    [status |-> "warning", message |-> <<"No content found in ", filename, ".">>]

NoChunks(filename) ==
    [status |-> "warning",
     message |-> <<"No text chunks extracted from ", filename, ".">>]

Uploaded(filename, n) ==
    [status |-> "success",
     message |-> <<"Uploaded ", Digit(n), " chunks from ", filename, ".">>,
     chunks_count |-> n]

\* the call ends: it returns result or raises
Ends(r, call, calls, result) ==
    req' = [req EXCEPT ![r] =
               [call EXCEPT !.pc = "done", !.calls = calls, !.result = result]]

\* request r arrives: the requests are numbered in the order in which
\* their operations are called
Arrives(r) ==
    /\ req[r].pc = "idle"
    /\ \A o \in 1..(r - 1) : req[o].pc # "idle"

\* the collaborator whose call fails in a step, if any
BeginFailures == {"none", "get_collections", "create_collection", "EmbeddingModel"}

ResumeFailures == {"none", "file.read", "loader.load", "encode", "upsert"}

SearchFailures == {"none", "get_collections", "EmbeddingModel", "encode", "search"}

NutritionFailures == SearchFailures \cup {"chat.completions.create"}

\* pdf_upload.py:19-58: from the call to the suspension at
\* "await file.read()"
ProcessPdfBegin(r) ==
    /\ Arrives(r)
    /\ \E filename \in Filenames, collection_name \in CollectionNames,
          fails \in BeginFailures :
          LET call == [req[r] EXCEPT
                          !.kind = "ingest",
                          !.filename = filename,
                          !.collection_name = collection_name]
              listed == [call EXCEPT !.collection_exists =
                                         CollectionExists(collection_name)]
              collection_exists == listed.collection_exists
              checked == <<"get_collections">>
              ensured == IF collection_exists THEN checked
                         ELSE checked \o <<"create_collection">>
              model == GetEmbeddingModel(embedding_model, instances,
                                         fails # "EmbeddingModel")
          IN  IF EnvMissing(QdrantEnv)
              THEN /\ Ends(r, call, <<>>, Raised("ValueError: environment"))
                   /\ UNCHANGED <<collections, embedding_model, instances,
                                  temp_files>>
              ELSE IF fails = "get_collections"
              THEN /\ Ends(r, call, checked, Raised("get_collections"))
                   /\ UNCHANGED <<collections, embedding_model, instances,
                                  temp_files>>
              ELSE IF ~collection_exists /\ fails = "create_collection"
              THEN /\ Ends(r, listed, ensured, Raised("create_collection"))
                   /\ UNCHANGED <<collections, embedding_model, instances,
                                  temp_files>>
              ELSE /\ collections' =
                          IF collection_exists THEN collections
                          ELSE collections \cup {NewCollection(collection_name)}
                   /\ IF model.raised
                      THEN /\ Ends(r, listed, ensured \o model.calls,
                                   Raised("EmbeddingModel"))
                           /\ UNCHANGED <<embedding_model, instances, temp_files>>
                      ELSE /\ embedding_model' = model.model
                           /\ instances' = instances + model.constructed
                           /\ temp_files' = temp_files \cup {r}
                           /\ req' = [req EXCEPT ![r] =
                                  [listed EXCEPT
                                      !.pc = "reading",
                                      !.model = model.model,
                                      !.calls = ensured \o model.calls
                                                \o <<"NamedTemporaryFile">>]]
    /\ UNCHANGED <<environ, points, parseVars>>

\* pdf_upload.py:58-144: from the resumption to the end.  pages and
\* per_page are what the loader and the splitter give.
ProcessPdfResume(r) ==
    /\ req[r].pc = "reading"
    /\ \E fails \in ResumeFailures, pages \in 0..MaxPages,
          per_page \in 0..MaxChunksPerPage :
          LET call == req[r]
              chunks == ChunkList(call.filename, pages, per_page, 1)
              read == call.calls \o <<"file.read">>
              load == read \o <<"loader.load">>
              loaded == [call EXCEPT !.pages = pages]
              unlink == <<"unlink">>
          IN  IF fails = "file.read"
              THEN \* raised inside the with block, before the inner try
                   /\ Ends(r, call, read, Raised("file.read"))
                   /\ UNCHANGED <<points, temp_files>>
              ELSE /\ temp_files' = temp_files \ {r}
                   /\ IF fails = "loader.load"
                      THEN /\ Ends(r, call, load \o unlink, Raised("loader.load"))
                           /\ UNCHANGED points
                      ELSE IF pages = 0
                      THEN /\ Ends(r, loaded, load \o unlink,
                                   NoContent(call.filename))
                           /\ UNCHANGED points
                      ELSE IF chunks = <<>>
                      THEN /\ Ends(r, loaded, load \o unlink,
                                   NoChunks(call.filename))
                           /\ UNCHANGED points
                      ELSE IF fails = "encode"
                      THEN /\ Ends(r, loaded, load \o <<"encode">> \o unlink,
                                   Raised("encode"))
                           /\ UNCHANGED points
                      ELSE IF fails = "upsert"
                      THEN /\ Ends(r, loaded,
                                   load \o <<"encode", "upsert">> \o unlink,
                                   Raised("upsert"))
                           /\ UNCHANGED points
                      ELSE /\ points' = points \cup
                                  {[collection |-> call.collection_name,
                                    id |-> pt.id, payload |-> pt.payload] :
                                      pt \in PointsOf(r, chunks)}
                           /\ Ends(r, loaded,
                                   load \o <<"encode", "upsert">> \o unlink,
                                   Uploaded(call.filename, Len(chunks)))
    /\ UNCHANGED <<environ, collections, embedding_model, instances, parseVars>>

\* the queries of the search and nutrition requests
ServiceQueries == {<<"lives", " ", "in", " ", "Kerala">>}

\* the values of limit
Limits == {1, 3}

\* client.search(collection_name, query_vector, limit): the limit nearest
\* points of the collection, or all of them if they are fewer, in the
\* order of the store's ranking, which is any order
SearchResults(collection_name, limit) ==
    LET held == {pt \in points : pt.collection = collection_name}
        n == Min({limit, Cardinality(held)})
    IN  {ranked \in [1..n -> held] :
            \A i \in 1..n : \A j \in 1..n : ranked[i] = ranked[j] => i = j}

\* search.py:43-48
FormattedResults(results) ==
    [i \in 1..Len(results) |->
        parse_health_scheme(results[i].payload.text) @@ ("result_id" :> i)]

\* semantic_search, search.py:9-57
SemanticSearch(r) ==
    /\ Arrives(r)
    /\ \E q \in ServiceQueries, collection_name \in CollectionNames,
          limit \in Limits, fails \in SearchFailures :
          LET call == [req[r] EXCEPT
                          !.kind = "search",
                          !.query = q,
                          !.collection_name = collection_name]
              listed == [call EXCEPT !.collection_exists =
                                         CollectionExists(collection_name)]
              checked == <<"get_collections">>
              model == GetEmbeddingModel(embedding_model, instances,
                                         fails # "EmbeddingModel")
              got == [listed EXCEPT !.model = model.model]
              encode == checked \o model.calls \o <<"encode">>
          IN  IF EnvMissing(QdrantEnv)
              THEN /\ Ends(r, call, <<>>, Raised("ValueError: environment"))
                   /\ UNCHANGED <<embedding_model, instances>>
              ELSE IF fails = "get_collections"
              THEN /\ Ends(r, call, checked, Raised("get_collections"))
                   /\ UNCHANGED <<embedding_model, instances>>
              ELSE IF ~listed.collection_exists
              THEN /\ Ends(r, listed, checked, Raised("ValueError: collection"))
                   /\ UNCHANGED <<embedding_model, instances>>
              ELSE IF model.raised
              THEN /\ Ends(r, listed, checked \o model.calls,
                           Raised("EmbeddingModel"))
                   /\ UNCHANGED <<embedding_model, instances>>
              ELSE /\ embedding_model' = model.model
                   /\ instances' = instances + model.constructed
                   /\ IF fails = "encode"
                      THEN Ends(r, got, encode, Raised("encode"))
                      ELSE IF fails = "search"
                      THEN Ends(r, got, encode \o <<"search">>, Raised("search"))
                      ELSE \E results \in SearchResults(collection_name, limit) :
                              Ends(r, got, encode \o <<"search">>,
                                   Returned([results |-> FormattedResults(results)]))
    /\ UNCHANGED <<environ, collections, points, temp_files, parseVars>>

\* what the LLM answers: the plan of one day in a fence tagged json, prose,
\* and a JSON number
ServiceCompletions ==
    { <<Fence, "json", "\n">>
          \o JsonDumps(Obj(DayKey(1) :> Obj(<<"breakfast">> :> Str(<<"Idli">>))))
          \o <<"\n", Fence>>,
      C4Sentence,
      <<"1">> }

\* nutrition.py:50-63 and 107-222: the region of the query and the parse
\* of the completion
DietPlanOutcome(q, llm_output) ==
    LET text == ExtractJsonText(llm_output)
        diet_plan_json == JsonLoads(text)
    IN  IF diet_plan_json.ok
        THEN LET strict == StrictParse(diet_plan_json.val)
             IN  IF strict.raised THEN Raised("TypeError")
                 ELSE Returned(StrictResult(strict.plan, ExtractRegion(q)))
        ELSE Returned(FallbackResult(text, ExtractRegion(q)))

\* get_nutrition_recommendation, nutrition.py:12-222; limit only bounds the
\* results that go into the prompt
NutritionRecommendation(r) ==
    /\ Arrives(r)
    /\ \E q \in ServiceQueries, fails \in NutritionFailures,
          llm_output \in ServiceCompletions :
          LET call == [req[r] EXCEPT
                          !.kind = "nutrition",
                          !.query = q,
                          !.collection_name = COLLECTION_NAME]
              listed == [call EXCEPT !.collection_exists =
                                         CollectionExists(COLLECTION_NAME)]
              checked == <<"get_collections">>
              model == GetEmbeddingModel(embedding_model, instances,
                                         fails # "EmbeddingModel")
              got == [listed EXCEPT !.model = model.model]
              encode == checked \o model.calls \o <<"encode">>
              create == encode \o <<"search", "chat.completions.create">>
          IN  IF EnvMissing(QdrantEnv \cup LlmEnv)
              THEN /\ Ends(r, call, <<>>, Raised("ValueError: environment"))
                   /\ UNCHANGED <<embedding_model, instances>>
              ELSE IF fails = "get_collections"
              THEN /\ Ends(r, call, checked, Raised("get_collections"))
                   /\ UNCHANGED <<embedding_model, instances>>
              ELSE IF ~listed.collection_exists
              THEN /\ Ends(r, listed, checked, Raised("ValueError: collection"))
                   /\ UNCHANGED <<embedding_model, instances>>
              ELSE IF model.raised
              THEN /\ Ends(r, listed, checked \o model.calls,
                           Raised("EmbeddingModel"))
                   /\ UNCHANGED <<embedding_model, instances>>
              ELSE /\ embedding_model' = model.model
                   /\ instances' = instances + model.constructed
                   /\ IF fails = "encode"
                      THEN Ends(r, got, encode, Raised("encode"))
                      ELSE IF fails = "search"
                      THEN Ends(r, got, encode \o <<"search">>, Raised("search"))
                      ELSE IF fails = "chat.completions.create"
                      THEN Ends(r, got, create, Raised("chat.completions.create"))
                      ELSE Ends(r, got, create, DietPlanOutcome(q, llm_output))
    /\ UNCHANGED <<environ, collections, points, temp_files, parseVars>>

\* no request has been made, the store and the singleton are empty
ServiceIdle ==
    /\ environ = QdrantEnv \cup LlmEnv
    /\ collections = {}
    /\ points = {}
    /\ temp_files = {}
    /\ embedding_model = NoInstance
    /\ instances = 0
    /\ req = [r \in Requests |-> IdleRequest]

----------------------------------------------------------------------------
(* The specifications *)

InitDiet ==
    /\ completion \in Completions
    /\ diet_plan_text = <<>>
    /\ dresult = <<>>
    /\ dpc = "llm"
    /\ region = <<"unknown">>
    /\ query = <<>>
    /\ rpc = "idle"
    /\ content = <<>>
    /\ cleaned_data = <<>>
    /\ spc = "idle"
    /\ ServiceIdle

NextDiet ==
    \/ ExtractJson
    \/ StrictParseReturn
    \/ StrictParseRaise
    \/ FallbackReturn

SpecDiet == InitDiet /\ [][NextDiet]_vars

\* no diet-plan parse is in progress
DietIdle ==
    /\ completion = <<>>
    /\ diet_plan_text = <<>>
    /\ dresult = <<>>
    /\ dpc = "idle"

InitScheme ==
    /\ content \in StringsUpTo(SchemeAtoms, MaxSchemeLen)
    /\ cleaned_data = <<>>
    /\ spc = "call"
    /\ query = <<>>
    /\ region = <<"unknown">>
    /\ rpc = "idle"
    /\ DietIdle
    /\ ServiceIdle

NextScheme == ParseHealthScheme

SpecScheme == InitScheme /\ [][NextScheme]_vars

InitRegion ==
    /\ query \in StringsUpTo(QueryAtoms, MaxQueryLen)
    /\ region = <<"unknown">>
    /\ rpc = "call"
    /\ content = <<>>
    /\ cleaned_data = <<>>
    /\ spc = "idle"
    /\ DietIdle
    /\ ServiceIdle

NextRegion == ExtractRegionStep

SpecRegion == InitRegion /\ [][NextRegion]_vars

\* no parse is in progress
ParsersIdle ==
    /\ content = <<>>
    /\ cleaned_data = <<>>
    /\ spc = "idle"
    /\ query = <<>>
    /\ region = <<"unknown">>
    /\ rpc = "idle"
    /\ DietIdle

\* the service before its first request, the store empty: any of the
\* environment values may be missing
Init ==
    /\ environ \in SUBSET (QdrantEnv \cup LlmEnv)
    /\ collections = {}
    /\ points = {}
    /\ temp_files = {}
    /\ embedding_model = NoInstance
    /\ instances = 0
    /\ req = [r \in Requests |-> IdleRequest]
    /\ ParsersIdle

Next ==
    \E r \in Requests :
        \/ ProcessPdfBegin(r)
        \/ ProcessPdfResume(r)
        \/ SemanticSearch(r)
        \/ NutritionRecommendation(r)

Spec == Init /\ [][Next]_vars

----------------------------------------------------------------------------
(* Properties of parse_health_scheme, checked under SpecScheme *)

\* some pattern of parse_health_scheme matches the text
SomeLabelMatches(text) ==
    \E k \in LabelledKeys : LabelSearch(LabelOf(k), text).matched

\* C6 as stated: a text in which no label is recognised gives exactly
\* {scheme_name, raw_content}, or exactly {raw_content} when its first line
\* is empty, the empty text included.
C6_AsStated ==
    (spc = "done" /\ ~SomeLabelMatches(content)) =>
        DOMAIN cleaned_data =
            IF Strip(FirstLine(content)) # <<>>
            THEN {"scheme_name", "raw_content"} ELSE {"raw_content"}

\* C6: a text in which no label is recognised gives exactly
\* {scheme_name, raw_content} when its first line is non-empty, exactly
\* {raw_content} when it is whitespace only but not empty, and the empty
\* mapping when it is the empty text (the empty raw_content is dropped too).
C6_NoLabelKeySet ==
    (spc = "done" /\ ~SomeLabelMatches(content)) =>
        DOMAIN cleaned_data =
            IF Strip(FirstLine(content)) # <<>> THEN {"scheme_name", "raw_content"}
            ELSE IF content # <<>> THEN {"raw_content"}
            ELSE {}

C6_Witness ==
    /\ spc = "done"
    /\ content = <<>>
    /\ DOMAIN cleaned_data = {}

\* C7 as stated: a text with a recognised label (one of the patterns
\* matches it) gives a mapping without raw_content.
C7_AsStated ==
    (spc = "done" /\ SomeLabelMatches(content)) =>
        "raw_content" \notin DOMAIN cleaned_data

\* a label of the seven stands in the text and a character that is not
\* whitespace follows it somewhere
LabelWithValue(text) ==
    \E k \in LabelledKeys : \E p \in 1..Len(text) :
        /\ Lower(text[p]) = LabelOf(k)
        /\ \E j \in (p + 1)..Len(text) : ~IsWs(text[j])

\* C7: a text in which one of the seven labels is followed, after any
\* whitespace, by a character that is not whitespace gives a mapping
\* without raw_content; a label followed by whitespace only to the end of
\* the text does not count.
C7_NoRawContentWithValue ==
    (spc = "done" /\ LabelWithValue(content)) =>
        "raw_content" \notin DOMAIN cleaned_data

C7_Witness ==
    /\ spc = "done"
    /\ LabelWithValue(content)
    /\ "state" \in DOMAIN cleaned_data
    /\ "scheme_name" \in DOMAIN cleaned_data
    /\ cleaned_data["scheme_name"] # cleaned_data["state"]

\* C8: the mapping holds no empty value; raw_content is there only if all
\* seven labelled fields were extracted empty, and then it is the input
\* text, untrimmed.
C8_NoEmptyValueRawOnlyIfAllEmpty ==
    spc = "done" =>
        /\ \A k \in DOMAIN cleaned_data : cleaned_data[k] # <<>>
        /\ "raw_content" \in DOMAIN cleaned_data =>
              /\ \A k \in LabelledKeys :
                    /\ k \notin DOMAIN cleaned_data
                    /\ LET m == LabelSearch(LabelOf(k), content)
                       IN  m.matched => Strip(m.group1) = <<>>
              /\ cleaned_data["raw_content"] = content

C8_Witness ==
    /\ spc = "done"
    /\ "raw_content" \in DOMAIN cleaned_data
    /\ Len(content) > 2
    /\ IsWs(content[1])
    /\ IsWs(content[Len(content)])
    /\ SomeLabelMatches(content)

----------------------------------------------------------------------------
(* Properties of the region extraction, checked under SpecRegion *)

\* the words after the first occurrence of keyword number i, to the end
RestWords(q, i) ==
    LET kw    == region_keywords[i]
        first == Min(Occurrences(kw, q))
    IN  SplitWs(SubSeq(q, first + Len(kw), Len(q)))

\* the words between the first occurrence of keyword number i and its
\* next occurrence (the end of the query if there is none)
SegmentWords(q, i) ==
    LET kw    == region_keywords[i]
        occ   == Occurrences(kw, q)
        first == Min(occ)
        later == {j \in occ : j >= first + Len(kw)}
        to    == IF later = {} THEN Len(q) ELSE Min(later) - 1
    IN  SplitWs(SubSeq(q, first + Len(kw), to))

OneOrTwo(words) ==
    IF Len(words) = 1 THEN words[1] ELSE words[1] \o <<" ">> \o words[2]

KeywordsIn(q) == {i \in 1..Len(region_keywords) : Contains(region_keywords[i], q)}

\* C9 as stated: the first keyword of the list that occurs in the
\* lower-cased query decides: the region is the next one or two words of
\* the remainder, and "unknown" if no keyword occurs or that remainder is
\* empty.
C9_AsStated ==
    rpc = "done" =>
        LET q == LowerStr(query)
        IN  IF KeywordsIn(q) = {} THEN region = <<"unknown">>
            ELSE LET words == RestWords(q, Min(KeywordsIn(q)))
                 IN  IF Len(words) = 0 THEN region = <<"unknown">>
                     ELSE region = OneOrTwo(words)

\* C9: the keywords are tried in list order on the lower-cased query; a
\* keyword decides only if it occurs and the segment between its first
\* occurrence and its next occurrence (or the end) holds a word; the first
\* such keyword gives the region, the first one or two words of that
\* segment; the region is "unknown" if no keyword does.  A query ending in
\* "from Kerala" in which no keyword occurs before that gives "kerala".
C9_FirstKeywordWithWords ==
    rpc = "done" =>
        LET q == LowerStr(query)
            deciding == {i \in KeywordsIn(q) : Len(SegmentWords(q, i)) > 0}
        IN  /\ IF deciding = {} THEN region = <<"unknown">>
               ELSE region = OneOrTwo(SegmentWords(q, Min(deciding)))
            /\ (/\ Len(q) >= 3
                /\ SubSeq(q, Len(q) - 2, Len(q)) = <<"from", " ", "kerala">>
                /\ KeywordsIn(SubSeq(q, 1, Len(q) - 3)) = {})
               => region = <<"kerala">>

\* the first keyword that occurs has no word after it, and a later
\* keyword of the list gives a two-word region
C9_Witness ==
    /\ rpc = "done"
    /\ LET q == LowerStr(query)
       IN  /\ KeywordsIn(q) # {}
           /\ Len(SegmentWords(q, Min(KeywordsIn(q)))) = 0
    /\ region = <<"kerala", " ", "state">>

----------------------------------------------------------------------------
(* Properties of the diet-plan parse, checked under SpecDiet *)

DietDone == dpc \in {"return_stage1", "return_fallback", "raise"}

DietReturned == dpc \in {"return_stage1", "return_fallback"}

\* exactly day1..day7, each with exactly the five meals, each a str
SchemaComplete(plan) ==
    /\ DOMAIN plan = {DayKey(n) : n \in DayNums}
    /\ \A d \in DOMAIN plan :
          /\ DOMAIN plan[d] = MealKeySet
          /\ \A mk \in MealKeySet : plan[d][mk].t = "str"

\* C1 as stated: for every completion the parse returns a diet_plan with
\* exactly the keys day1..day7, each with exactly the five meal keys, each
\* of the 35 values a str.
C1_AsStated ==
    DietDone => (DietReturned /\ SchemaComplete(dresult.diet_plan))

\* C2: whenever json.loads fails on the text handed to it, the call does
\* not raise: it returns the result of the Stage 2/3 fallback, with the
\* note; a result of the strict parse (Stage 1) has no note key.
C2_DecodeFailureRecoveredWithNote ==
    /\ (DietDone /\ ~JsonLoads(diet_plan_text).ok) =>
          /\ dpc = "return_fallback"
          /\ DOMAIN dresult = {"diet_plan", "region", "note"}
          /\ dresult.note = NoteText
          /\ dresult.diet_plan = FallbackParse(diet_plan_text)
    /\ dpc = "return_stage1" => "note" \notin DOMAIN dresult

\* a completion that names a day in prose was recovered by Stage 2
C2_Witness ==
    /\ dpc = "return_fallback"
    /\ ~JsonLoads(diet_plan_text).ok
    /\ "note" \in DOMAIN dresult
    /\ DayKey(2) \in DOMAIN dresult.diet_plan
    /\ dresult.diet_plan[DayKey(2)][<<"lunch">>] = Str(<<"Idli", " ", "evening">>)

\* C3 as stated: whenever the extracted text decodes as JSON, the result
\* is returned with, for each of day1..day7, all "Not specified" if the
\* day is absent from the decoded value, and otherwise each meal the day's
\* value for it, "Not specified" when the day's value lacks it; no note.
C3_AsStated ==
    (DietDone /\ JsonLoads(diet_plan_text).ok) =>
        LET j == JsonLoads(diet_plan_text).val
        IN  /\ dpc = "return_stage1"
            /\ "note" \notin DOMAIN dresult
            /\ DOMAIN dresult.diet_plan = {DayKey(n) : n \in DayNums}
            /\ \A n \in DayNums :
                  LET day == dresult.diet_plan[DayKey(n)]
                  IN  IF j.t = "dict" /\ DayKey(n) \in DOMAIN j.v
                      THEN LET day_data == j.v[DayKey(n)]
                           IN  \A mk \in MealKeySet :
                                  day[mk] =
                                     IF day_data.t = "dict" /\ mk \in DOMAIN day_data.v
                                     THEN day_data.v[mk] ELSE NotSpecified
                      ELSE day = AllNotSpecified

\* the completion ends with C4Sentence (whitespace may follow), and
\* nothing before it is a brace, a fence or a day marker
EndsWithC4Sentence(t) ==
    \E i \in 1..Len(t) :
        /\ i + Len(C4Sentence) - 1 <= Len(t)
        /\ SubSeq(t, i, i + Len(C4Sentence) - 1) = C4Sentence
        /\ \A k \in (i + Len(C4Sentence))..Len(t) : IsWs(t[k])
        /\ \A k \in 1..(i - 1) : t[k] \notin {"{", "}", Fence} /\ Lower(t[k]) # "day"

\* C4 as stated: prose with "Day 1: Breakfast: Poha. Lunch: Dal rice." and
\* no JSON gives day1.breakfast "Poha" and day1.lunch "Dal rice", with the
\* note.
C4_AsStated ==
    (DietDone /\ EndsWithC4Sentence(completion)) =>
        /\ dpc = "return_fallback"
        /\ "note" \in DOMAIN dresult
        /\ dresult.diet_plan[DayKey(1)][<<"breakfast">>] = Str(<<"Poha">>)
        /\ dresult.diet_plan[DayKey(1)][<<"lunch">>] = Str(<<"Dal", " ", "rice">>)

\* C4: prose without JSON and without another day marker that ends with
\* "Day 1: Breakfast: Poha. Lunch: Dal rice." gives day1.breakfast "Poha."
\* and day1.lunch "Dal rice.", each with its full stop, and the note.
C4_ProseKeepsFullStops ==
    (DietDone /\ EndsWithC4Sentence(completion)) =>
        /\ dpc = "return_fallback"
        /\ "note" \in DOMAIN dresult
        /\ dresult.diet_plan[DayKey(1)][<<"breakfast">>] = Str(<<"Poha", ".">>)
        /\ dresult.diet_plan[DayKey(1)][<<"lunch">>] = Str(<<"Dal", " ", "rice", ".">>)

C4_Witness ==
    /\ dpc = "return_fallback"
    /\ completion = <<"Idli", " ">> \o C4Sentence
    /\ dresult.diet_plan[DayKey(1)][<<"breakfast">>] = Str(<<"Poha", ".">>)

\* C5: the JSON text of a schema-valid plan, through Stage 0 and the
\* strict parse, gives that plan back, without a note.
C5_RoundTrip ==
    DietDone =>
        \A pair \in PlanPairs :
            completion = pair.text =>
                /\ dpc = "return_stage1"
                /\ dresult.diet_plan = pair.plan
                /\ "note" \notin DOMAIN dresult

\* a plan with a meal that holds a brace, a fence and the json tag
C5_Witness ==
    /\ dpc = "return_stage1"
    /\ completion \in PlanCompletions
    /\ SchemaComplete(dresult.diet_plan)
    /\ dresult.diet_plan[DayKey(7)][<<"dinner">>] = Str(<<"{", Fence, "json">>)
    /\ dresult.diet_plan[DayKey(1)][<<"dinner">>] = Str(<<"\"">>)

\* the patterns of day_patterns that match somewhere in the text
MatchingPatterns(t) == {k \in 1..3 : DayMatches(k, t, 1) # <<>>}

\* the day entries of the first pattern that matches, and of no other
FirstPatternDays(t) ==
    IF MatchingPatterns(t) = {}
    THEN [k \in {DayKey(n) : n \in DayNums} |-> AllNotSpecified]
    ELSE StoreDays(<<>>, DayMatches(Min(MatchingPatterns(t)), t, 1), 1)

\* C14 as stated: Stage 2 stops after the first day pattern that yields
\* matches: the fallback's diet_plan holds the day entries of that pattern
\* alone, no later pattern adding an entry or replacing one.
C14_AsStated ==
    dpc = "return_fallback" =>
        dresult.diet_plan = FirstPatternDays(diet_plan_text)

\* the first fenced block of the text, tagged json or not: whether there
\* is one, and its content
FirstFenced(t, tagged) ==
    LET g0(p) == IF tagged THEN p + 2 ELSE p + 1
        opens == {p \in 1..Len(t) :
                    /\ t[p] = Fence
                    /\ tagged => (p + 1 <= Len(t) /\ t[p + 1] = "json")
                    /\ FencedGroup(t, g0(p)).matched}
    IN  IF opens = {} THEN [matched |-> FALSE, group |-> <<>>]
        ELSE FencedGroup(t, g0(Min(opens)))

\* the candidate by strict priority: the content of a fenced block tagged
\* json, else of any fenced block, else the text from the first '{' to the
\* last '}', else the text; the text as well if the content is empty
PriorityCandidate(t) ==
    LET opens  == {i \in 1..Len(t) : t[i] = "{"}
        closes == {i \in 1..Len(t) : t[i] = "}" /\ opens # {} /\ i > Min(opens)}
        chosen == IF FirstFenced(t, TRUE).matched THEN FirstFenced(t, TRUE).group
                  ELSE IF FirstFenced(t, FALSE).matched
                       THEN FirstFenced(t, FALSE).group
                  ELSE IF closes # {} THEN SubSeq(t, Min(opens), Max(closes))
                  ELSE t
    IN  IF chosen = <<>> THEN t ELSE chosen

\* C15 as stated: Stage 0 takes its candidate by strict priority, wherever
\* the candidates sit in the text, and trims it to its braces.
C15_AsStated ==
    dpc # "llm" =>
        diet_plan_text = CutToLastBrace(CutToFirstBrace(PriorityCandidate(completion)))

----------------------------------------------------------------------------
(* Properties of the three operations, checked under Spec *)

\* the loader of request r returned zero pages and the call has ended
ZeroPagesDone(r) ==
    req[r].pc = "done" /\ req[r].kind = "ingest" /\ req[r].pages = 0

\* C10 as stated: a call whose loader returned zero pages returns the
\* warning with the filename in its message, and made no create_collection
\* and no upsert call; no other request having begun, the store holds no
\* point and, as before the call, not the collection the call found absent.
C10_AsStated ==
    \A r \in Requests :
        ZeroPagesDone(r) =>
            /\ req[r].result.status = "warning"
            /\ \E i \in DOMAIN req[r].result.message :
                  req[r].result.message[i] = req[r].filename
            /\ \A i \in DOMAIN req[r].calls :
                  req[r].calls[i] \notin {"create_collection", "upsert"}
            /\ (\A o \in Requests \ {r} : req[o].pc = "idle") =>
                  /\ points = {}
                  /\ ~req[r].collection_exists =>
                        ~CollectionExists(req[r].collection_name)

\* the collaborator calls request r has made
CallsOf(r) == {req[r].calls[i] : i \in DOMAIN req[r].calls}

\* C11 as stated: on every exit path of process_pdf taken after the
\* temporary file has been created, the temporary file no longer exists
\* when the call returns or raises.
C11_AsStated ==
    \A r \in Requests :
        (req[r].pc = "done" /\ "NamedTemporaryFile" \in CallsOf(r)) =>
            r \notin temp_files

\* no collection of the store has this name
Absent(cols, collection_name) ==
    \A collection \in cols : collection.name # collection_name

\* request r arrives in this step
Called(r) == req[r].pc = "idle" /\ req'[r].pc # "idle"

\* C12: the set of collections changes only in a step in which an
\* ingestion arrives whose collection is absent, and then by that
\* collection with vector size 384 and cosine distance; a search or
\* nutrition request that arrives while its collection is absent raises
\* without a call to the embedding model, to the store's search or to the
\* LLM, and leaves the collections as they are.
C12_OnlyIngestionCreates ==
    [][ /\ collections' # collections =>
              \E r \in Requests :
                  /\ Called(r)
                  /\ req'[r].kind = "ingest"
                  /\ Absent(collections, req'[r].collection_name)
                  /\ collections' = collections \cup
                        {[name |-> req'[r].collection_name, size |-> 384,
                          distance |-> "Cosine"]}
        /\ \A r \in Requests :
              ( /\ Called(r)
                /\ req'[r].kind \in {"search", "nutrition"}
                /\ Absent(collections, req'[r].collection_name) ) =>
                  /\ req'[r].pc = "done"
                  /\ req'[r].result.status = "raise"
                  /\ {req'[r].calls[i] : i \in DOMAIN req'[r].calls} \cap
                        {"EmbeddingModel", "encode", "search",
                         "chat.completions.create"} = {}
                  /\ collections' = collections
      ]_vars

\* an ingestion has created its collection, and a search for the other
\* collection and a nutrition request before it have failed on absence
C12_Witness ==
    \E r \in Requests, o \in Requests :
        /\ req[r].kind = "ingest"
        /\ "create_collection" \in CallsOf(r)
        /\ collections = {NewCollection(req[r].collection_name)}
        /\ req[o].kind \in {"search", "nutrition"}
        /\ req[o].result = Raised("ValueError: collection")
        /\ req[o].calls = <<"get_collections">>

\* the environment values the operation of request r requires
RequiredEnv(r) ==
    IF req[r].kind = "nutrition"
    THEN {"QDRANT_URL", "QDRANT_API_KEY", "LLAMA_API_KEY", "E2E_NETWORKS_URL"}
    ELSE {"QDRANT_URL", "QDRANT_API_KEY"}

\* C13: a request of any of the three operations made while one of the
\* environment values it requires is missing has raised, without a call
\* to the vector store, the embedding model or the LLM and without a
\* temporary file.
C13_MissingEnvFailsFirst ==
    \A r \in Requests :
        (req[r].kind # "none" /\ \E name \in RequiredEnv(r) : name \notin environ) =>
            /\ req[r].pc = "done"
            /\ req[r].result.status = "raise"
            /\ req[r].calls = <<>>
            /\ req[r].model = NoInstance
            /\ r \notin temp_files

\* a nutrition request has raised with only an LLM value missing
C13_Witness ==
    /\ environ = {"QDRANT_URL", "QDRANT_API_KEY", "LLAMA_API_KEY"}
    /\ \E r \in Requests :
          /\ req[r].kind = "nutrition"
          /\ req[r].result = Raised("ValueError: environment")
          /\ req[r].calls = <<>>

\* C16: under any interleaving of the requests at most one EmbeddingModel
\* is constructed, every request that got a model from
\* get_embedding_model got the one the global holds, and the global, once
\* set, is not assigned again.
C16_SingleInstance ==
    /\ [](/\ instances <= 1
          /\ \A r \in Requests :
                req[r].model # NoInstance => req[r].model = embedding_model)
    /\ [][embedding_model # NoInstance => embedding_model' = embedding_model]_vars

\* an ingestion suspended at file.read() holds the instance that a search,
\* run meanwhile, was given as well
C16_Witness ==
    \E r \in Requests, o \in Requests :
        /\ req[r].kind = "ingest" /\ req[r].pc = "reading"
        /\ req[o].kind = "search" /\ req[o].pc = "done"
        /\ req[r].model = 1 /\ req[o].model = 1
        /\ embedding_model = 1 /\ instances = 1

=============================================================================
